---- MODULE Spec2Model ----
(***************************************************************************)
(* FIFO position engine of backend/app/services/position_engine.py:        *)
(* Lot, Position (add_buy, process_sell, queries) and PositionEngine        *)
(* (process_trades and its queries).                                        *)
(*                                                                          *)
(* Every quantity of the engine (shares, prices, fees, costs, P&L) is a     *)
(* Python float.  A float is modelled as a binary floating-point number     *)
(* [m, e] of value m * 2^e whose significand has at most mant_dig bits, and *)
(* every arithmetic operation rounds its exact result to the nearest such   *)
(* number, ties to even, as IEEE-754 does (Python: Prec = 53).              *)
(***************************************************************************)
EXTENDS Integers, Sequences, FiniteSets, TLC

\* ------------------------------------------------------------------------
\* Bounds
\* ------------------------------------------------------------------------
\* bits of the significand of a float (53 in CPython)
Prec == 3

\* the same for the replay of the trade list of test_position_engine: wide
\* enough to hold every share count, price, cost and proceeds of that list
\* exactly
ScenarioPrec == 10

VARIABLES
    mant_dig         \* sys.float_info.mant_dig: bits of the significand of the
                     \* floats of this run

\* ------------------------------------------------------------------------
\* Floating-point arithmetic (Python float)
\* ------------------------------------------------------------------------
Abs(n) == IF n < 0 THEN -n ELSE n

Sign(n) == IF n < 0 THEN -1 ELSE 1

Min(a, b) == IF a <= b THEN a ELSE b

RECURSIVE BitLen(_)
\* number of bits of the natural number n
BitLen(n) == IF n = 0 THEN 0 ELSE 1 + BitLen(n \div 2)

RECURSIVE Norm(_, _)
\* the canonical form of the number M * 2^E: odd significand, or [0, 0]
Norm(M, E) ==
    IF M = 0 THEN [m |-> 0, e |-> 0]
    ELSE IF Abs(M) % 2 = 0 THEN Norm(Sign(M) * (Abs(M) \div 2), E + 1)
    ELSE [m |-> M, e |-> E]

\* M * 2^E rounded to mant_dig significant bits, round-half-to-even
Round(M, E) ==
    IF Abs(M) < 2 ^ mant_dig THEN Norm(M, E)
    ELSE LET A == Abs(M)
             k == BitLen(A) - mant_dig
             q == A \div (2 ^ k)
             r == A % (2 ^ k)
             h == 2 ^ (k - 1)
             up == r > h \/ (r = h /\ q % 2 = 1)
         IN  Norm(Sign(M) * (IF up THEN q + 1 ELSE q), E + k)

Zero == [m |-> 0, e |-> 0]

\* the float of the integer n (exact when n has at most mant_dig bits)
Flt(n) == Round(n, 0)

\* a + b as an integer multiple of 2^Min(a.e, b.e)
SumAt(a, b) ==
    LET e0 == Min(a.e, b.e)
    IN  a.m * (2 ^ (a.e - e0)) + b.m * (2 ^ (b.e - e0))

\* exact (unrounded) sum, difference and product: the real-number results
XAdd(a, b) == Norm(SumAt(a, b), Min(a.e, b.e))

XNeg(a) == [m |-> -a.m, e |-> a.e]

XSub(a, b) == XAdd(a, XNeg(b))

XMul(a, b) == Norm(a.m * b.m, a.e + b.e)

\* float +, -, *, / : the exact result, rounded
FAdd(a, b) == Round(SumAt(a, b), Min(a.e, b.e))

FSub(a, b) == Round(SumAt(a, XNeg(b)), Min(a.e, b.e))

FMul(a, b) == Round(a.m * b.m, a.e + b.e)

\* b # 0.  The quotient is computed to at least mant_dig + 3 bits and a
\* sticky bit records an inexact remainder, so that the final rounding is
\* correct.
FDiv(a, b) ==
    LET s == mant_dig + 2 + BitLen(Abs(b.m))
        n == Abs(a.m) * (2 ^ s)
        d == Abs(b.m)
        q == n \div d
        sticky == IF n % d = 0 THEN 0 ELSE 1
    IN  Round(Sign(a.m) * Sign(b.m) * (2 * q + sticky), a.e - b.e - s - 1)

\* float comparisons
FLt(a, b) == SumAt(a, XNeg(b)) < 0

FLe(a, b) == SumAt(a, XNeg(b)) <= 0

FGt(a, b) == FLt(b, a)

\* ------------------------------------------------------------------------
\* Lot and Position
\* ------------------------------------------------------------------------
\* Python's None, for an Optional value: a present value v is <<v>>
None == << >>

\* date.isoformat(): the date as a string
IsoFormat(d) == [iso |-> d]

\* Lot.__init__
Lot(shares, price_usd, trade_date, trade_id) ==
    [shares |-> shares, price_usd |-> price_usd, trade_date |-> trade_date,
     trade_id |-> trade_id, remaining_shares |-> shares]

\* Position.__init__
NewPosition(ticker) ==
    [ticker |-> ticker, lots |-> << >>, total_shares |-> Zero,
     total_cost |-> Zero, realized_pl |-> Zero, realized_history |-> << >>,
     first_buy_date |-> None]

\* add_buy: the lot's unit price, the buy fee spread over the shares
EffectivePrice(shares, price_usd, trade_fee_usd) ==
    LET fee_per_share == IF trade_fee_usd # Zero
                         THEN FDiv(trade_fee_usd, shares) ELSE Zero
    IN  FAdd(price_usd, fee_per_share)

\* AddBuy that records the date of every buy as first_buy_date
AddBuyLatestDate(pos, shares, price_usd, trade_date, trade_id, trade_fee_usd) ==
    LET effective_price == EffectivePrice(shares, price_usd, trade_fee_usd)
        lot == Lot(shares, effective_price, trade_date, trade_id)
    IN  [pos EXCEPT
            !.first_buy_date = <<trade_date>>,
            !.lots = Append(@, lot),
            !.total_shares = FAdd(@, shares),
            !.total_cost = FAdd(@, FMul(shares, effective_price))]

\* Position.add_buy
AddBuy(pos, shares, price_usd, trade_date, trade_id, trade_fee_usd) ==
    LET effective_price == EffectivePrice(shares, price_usd, trade_fee_usd)
        lot == Lot(shares, effective_price, trade_date, trade_id)
    IN  [pos EXCEPT
            !.first_buy_date = IF @ = None THEN <<trade_date>> ELSE @,
            !.lots = Append(@, lot),
            !.total_shares = FAdd(@, shares),
            !.total_cost = FAdd(@, FMul(shares, effective_price))]

\* Oversell with the comparison turned round
OversellReversed(pos, shares) == FGt(pos.total_shares, shares)

\* process_sell: the guard that raises ValueError
Oversell(pos, shares) == FLt(pos.total_shares, shares)

\* LotExhausted with < in place of <=
LotExhaustedStrict(lot, remaining_to_sell) ==
    FLt(lot.remaining_shares, remaining_to_sell)

\* process_sell: does the front lot go entirely to this sell?
LotExhausted(lot, remaining_to_sell) ==
    FLe(lot.remaining_shares, remaining_to_sell)

\* process_sell: one entry of matched_lots
Fragment(lot, sell_shares, price_usd) ==
    LET cost_basis == FMul(sell_shares, lot.price_usd)
        proceeds == FMul(sell_shares, price_usd)
    IN  [buy_trade_id |-> lot.trade_id, buy_price |-> lot.price_usd,
         buy_date |-> IsoFormat(lot.trade_date), shares |-> sell_shares,
         cost_basis |-> cost_basis, proceeds |-> proceeds,
         pl |-> FSub(proceeds, cost_basis)]

\* ConsumeLot with pop() in place of popleft(): the newest lot is dropped
ConsumeLotPopRight(st, price_usd) ==
    LET lot == Head(st.lots)
        f == Fragment(lot, lot.remaining_shares, price_usd)
    IN  [st EXCEPT
            !.matched_lots = Append(@, f),
            !.total_cost_basis = FAdd(@, f.cost_basis),
            !.total_pl = FAdd(@, f.pl),
            !.remaining_to_sell = FSub(@, f.shares),
            !.total_shares = FSub(@, f.shares),
            !.total_cost = FSub(@, f.cost_basis),
            !.lots = SubSeq(@, 1, Len(@) - 1),
            !.iterations = @ + 1]

\* process_sell: the branch that takes the whole front lot and pops it.
\* st holds the loop's variables and the fields of the position it updates.
ConsumeLot(st, price_usd) ==
    LET lot == Head(st.lots)
        f == Fragment(lot, lot.remaining_shares, price_usd)
    IN  [st EXCEPT
            !.matched_lots = Append(@, f),
            !.total_cost_basis = FAdd(@, f.cost_basis),
            !.total_pl = FAdd(@, f.pl),
            !.remaining_to_sell = FSub(@, f.shares),
            !.total_shares = FSub(@, f.shares),
            !.total_cost = FSub(@, f.cost_basis),
            !.lots = Tail(@),
            !.iterations = @ + 1]

\* ConsumePart that takes the shares out of the newest lot of the queue
ConsumePartNewest(st, price_usd) ==
    LET lot == Head(st.lots)
        newest == st.lots[Len(st.lots)]
        f == Fragment(lot, st.remaining_to_sell, price_usd)
    IN  [st EXCEPT
            !.matched_lots = Append(@, f),
            !.total_cost_basis = FAdd(@, f.cost_basis),
            !.total_pl = FAdd(@, f.pl),
            !.lots = SubSeq(@, 1, Len(@) - 1)
                     \o <<[newest EXCEPT !.remaining_shares = FSub(@, f.shares)]>>,
            !.total_shares = FSub(@, f.shares),
            !.total_cost = FSub(@, f.cost_basis),
            !.remaining_to_sell = Zero,
            !.iterations = @ + 1]

\* process_sell: the branch that takes part of the front lot in place
ConsumePart(st, price_usd) ==
    LET lot == Head(st.lots)
        f == Fragment(lot, st.remaining_to_sell, price_usd)
    IN  [st EXCEPT
            !.matched_lots = Append(@, f),
            !.total_cost_basis = FAdd(@, f.cost_basis),
            !.total_pl = FAdd(@, f.pl),
            !.lots = <<[lot EXCEPT !.remaining_shares = FSub(@, f.shares)]>>
                     \o Tail(@),
            !.total_shares = FSub(@, f.shares),
            !.total_cost = FSub(@, f.cost_basis),
            !.remaining_to_sell = Zero,
            !.iterations = @ + 1]

RECURSIVE SellLoop(_, _)
\* process_sell: the while loop over the lot queue.  One iteration's result
\* is bound (s) as a value before the next iteration starts.
SellLoop(st, price_usd) ==
    IF FGt(st.remaining_to_sell, Zero) /\ Len(st.lots) > 0
    THEN CHOOSE out \in
           {SellLoop(s, price_usd) :
              s \in {IF LotExhausted(Head(st.lots), st.remaining_to_sell)
                     THEN ConsumeLot(st, price_usd)
                     ELSE ConsumePart(st, price_usd)}} : TRUE
    ELSE st

\* NetPl that leaves the sell fee out
NetPlNoFee(total_pl, trade_fee_usd) == total_pl

\* process_sell: total P&L of the sell after the sell fee
NetPl(total_pl, trade_fee_usd) ==
    IF trade_fee_usd # Zero THEN FSub(total_pl, trade_fee_usd) ELSE total_pl

\* Position.process_sell: [raised, pos, ret, loop]; raised is the ValueError,
\* pos the position afterwards, ret the returned realized_info, loop the
\* loop's variables on exit.
ProcessSell(pos, shares, price_usd, trade_date, trade_id, trade_fee_usd) ==
    IF Oversell(pos, shares)
    THEN [raised |-> TRUE, pos |-> pos, ret |-> None, loop |-> None]
    ELSE
    LET st0 == [lots |-> pos.lots, total_shares |-> pos.total_shares,
                total_cost |-> pos.total_cost, remaining_to_sell |-> shares,
                matched_lots |-> << >>, total_cost_basis |-> Zero,
                total_pl |-> Zero, iterations |-> 0]
        \* the statements after the loop, st being the loop's variables
        AfterLoop(st) ==
            LET total_pl == NetPl(st.total_pl, trade_fee_usd)
                realized_info ==
                    [ticker |-> pos.ticker, trade_id_sell_ref |-> trade_id,
                     shares |-> shares, pl_usd |-> total_pl,
                     pl_per_share_usd |-> IF FGt(shares, Zero)
                                          THEN FDiv(total_pl, shares)
                                          ELSE Zero,
                     matched_lots |-> st.matched_lots,
                     sell_price |-> price_usd,
                     sell_date |-> IsoFormat(trade_date),
                     total_cost_basis |-> st.total_cost_basis,
                     trade_fee_usd |-> trade_fee_usd]
            IN  [raised |-> FALSE,
                 pos |-> [pos EXCEPT
                            !.lots = st.lots,
                            !.total_shares = st.total_shares,
                            !.total_cost = st.total_cost,
                            !.realized_pl = FAdd(@, total_pl),
                            !.realized_history = Append(@, realized_info)],
                 ret |-> realized_info,
                 loop |-> st]
    IN  CHOOSE out \in {AfterLoop(st) : st \in {SellLoop(st0, price_usd)}} :
          TRUE

\* Position.get_avg_cost
GetAvgCost(pos) ==
    IF pos.total_shares = Zero THEN Zero
    ELSE FDiv(pos.total_cost, pos.total_shares)

\* Position.is_closed
IsClosed(pos) == pos.total_shares = Zero

\* the literal 100 of get_unrealized_pl, which a float holds exactly
Hundred == [m |-> 25, e |-> 2]

\* Position.get_unrealized_pl: <<unrealized_pl, unrealized_pl_percent>>
GetUnrealizedPl(pos, current_price) ==
    IF pos.total_shares = Zero THEN <<Zero, Zero>>
    ELSE LET market_value == FMul(pos.total_shares, current_price)
             unrealized_pl == FSub(market_value, pos.total_cost)
         IN  <<unrealized_pl,
               IF FGt(pos.total_cost, Zero)
               THEN FMul(FDiv(unrealized_pl, pos.total_cost), Hundred)
               ELSE Zero>>

\* the float division a / b raises ZeroDivisionError
ZeroDivision(a, b) == b = Zero

\* GetAvgCostRaises without the test of total_shares
GetAvgCostRaisesUnguarded(pos) ==
    ZeroDivision(pos.total_cost, pos.total_shares)

\* Position.get_avg_cost raises
GetAvgCostRaises(pos) ==
    IF pos.total_shares = Zero THEN FALSE
    ELSE ZeroDivision(pos.total_cost, pos.total_shares)

\* Position.get_unrealized_pl raises
GetUnrealizedPlRaises(pos, current_price) ==
    IF pos.total_shares = Zero THEN FALSE
    ELSE IF FGt(pos.total_cost, Zero)
    THEN ZeroDivision(FSub(FMul(pos.total_shares, current_price),
                           pos.total_cost),
                      pos.total_cost)
    ELSE FALSE

\* Position.get_holding_days; as_of_date is None or <<date>>, today is what
\* date.today() returns
GetHoldingDays(pos, as_of_date, today) ==
    IF pos.first_buy_date = None THEN None
    ELSE IF as_of_date = None THEN <<today - pos.first_buy_date[1]>>
    ELSE <<as_of_date[1] - pos.first_buy_date[1]>>

\* Position.to_dict; current_price is None or <<price>>
ToDict(pos, current_price, as_of_date, today) ==
    LET priced == current_price # None /\ current_price # <<Zero>>
    IN  [ticker |-> pos.ticker,
         shares |-> pos.total_shares,
         avg_cost_usd |-> GetAvgCost(pos),
         total_cost_usd |-> pos.total_cost,
         market_price_usd |-> current_price,
         market_value_usd |->
            IF priced THEN <<FMul(pos.total_shares, current_price[1])>>
            ELSE None,
         unrealized_pl_usd |->
            IF priced THEN <<GetUnrealizedPl(pos, current_price[1])[1]>>
            ELSE None,
         unrealized_pl_percent |->
            IF priced THEN <<GetUnrealizedPl(pos, current_price[1])[2]>>
            ELSE None,
         is_closed |-> IsClosed(pos),
         lot_count |-> Len(pos.lots),
         first_buy_date |->
            IF pos.first_buy_date # None
            THEN <<IsoFormat(pos.first_buy_date[1])>> ELSE None,
         holding_days |-> GetHoldingDays(pos, as_of_date, today),
         realized_pl_usd |-> pos.realized_pl]


\* ------------------------------------------------------------------------
\* PositionEngine
\* ------------------------------------------------------------------------
\* str.upper() on one character of the tickers' alphabet
UpperChar(c) ==
    CASE c = "a" -> "A"
      [] c = "m" -> "M"
      [] OTHER -> c

\* Upper that leaves the letters as they are
UpperKeep(ticker) == ticker

\* str.upper(): a ticker is the sequence of its characters
Upper(ticker) == [i \in DOMAIN ticker |-> UpperChar(ticker[i])]

\* KeyLess for the key (x['trade_date'], -x['id'])
KeyLessNewestFirst(a, b) ==
    \/ a.trade_date < b.trade_date
    \/ a.trade_date = b.trade_date /\ a.id > b.id

\* KeyLess for the key x['id'] alone
KeyLessIdOnly(a, b) == a.id < b.id

\* KeyLess for the key x['trade_date'] alone
KeyLessDateOnly(a, b) == a.trade_date < b.trade_date

\* the sort key (x['trade_date'], x['id']), compared as Python compares tuples
KeyLess(a, b) ==
    \/ a.trade_date < b.trade_date
    \/ a.trade_date = b.trade_date /\ a.id < b.id

RECURSIVE InsertSorted(_, _)
\* x put into the sorted list s behind every element whose key is not greater
InsertSorted(s, x) ==
    IF s = << >> THEN <<x>>
    ELSE IF KeyLess(x, Head(s)) THEN <<x>> \o s
    ELSE <<Head(s)>> \o InsertSorted(Tail(s), x)

RECURSIVE SortedFrom(_, _)
SortedFrom(trades, acc) ==
    IF trades = << >> THEN acc
    ELSE SortedFrom(Tail(trades), InsertSorted(acc, Head(trades)))

\* Sorted that leaves the list in the order it was handed over in
Unsorted(trades) == trades

\* sorted(trades, key=...): a new list, stable, the argument is not changed
Sorted(trades) == SortedFrom(trades, << >>)

\* IndexOf for a dict that keeps everything under one key
IndexOfFirst(dict, ticker) == IF dict = << >> THEN 0 ELSE 1

\* self.positions is a dict: its entries in insertion order.  The index of
\* the entry of a key, 0 when the key is absent.
IndexOf(dict, ticker) ==
    LET found == {i \in 1..Len(dict) : dict[i].ticker = ticker}
    IN  IF found = {} THEN 0 ELSE CHOOSE i \in found : TRUE

\* process_trades: if ticker not in self.positions: create its Position
WithPosition(dict, ticker) ==
    IF IndexOf(dict, ticker) = 0 THEN Append(dict, NewPosition(ticker))
    ELSE dict

\* PositionEngine.get_position
GetPosition(dict, ticker) ==
    LET i == IndexOf(dict, Upper(ticker))
    IN  IF i = 0 THEN None ELSE <<dict[i]>>

RECURSIVE FSumRealized(_, _)
\* PositionEngine.get_total_realized_pl: sum() over the dict's values
FSumRealized(dict, acc) ==
    IF dict = << >> THEN acc
    ELSE FSumRealized(Tail(dict), FAdd(acc, Head(dict).realized_pl))

\* GetTotalRealizedPl over the positions that are not closed
GetTotalRealizedPlOpenOnly(dict) ==
    FSumRealized(SelectSeq(dict, LAMBDA pos : pos.total_shares # Zero), Zero)

GetTotalRealizedPl(dict) == FSumRealized(dict, Zero)

RECURSIVE Reversed(_)
Reversed(list) ==
    IF list = << >> THEN << >>
    ELSE Append(Reversed(Tail(list)), Head(list))

\* GetAllRealizedPlHistory handing the list out newest first
GetAllRealizedPlHistoryReversed(eng) == Reversed(eng.all_realized_pl)

RECURSIVE GetAllPositionsEvery(_, _, _)
\* GetAllPositions that never leaves a position out
GetAllPositionsEvery(dict, include_closed, today) ==
    IF dict = << >> THEN << >>
    ELSE <<ToDict(Head(dict), None, None, today)>>
         \o GetAllPositionsEvery(Tail(dict), include_closed, today)

RECURSIVE GetAllPositions(_, _, _)
\* PositionEngine.get_all_positions
GetAllPositions(dict, include_closed, today) ==
    IF dict = << >> THEN << >>
    ELSE IF ~include_closed /\ IsClosed(Head(dict))
    THEN GetAllPositions(Tail(dict), include_closed, today)
    ELSE <<ToDict(Head(dict), None, None, today)>>
         \o GetAllPositions(Tail(dict), include_closed, today)

\* PositionEngine.get_all_realized_pl_history
GetAllRealizedPlHistory(eng) == eng.all_realized_pl

\* ------------------------------------------------------------------------
\* State
\* ------------------------------------------------------------------------
VARIABLES
    position,        \* a Position object driven directly through its methods
    calls,           \* number of method calls made on it so far
    last,            \* the last call: method, arguments, raised?, return value
    trades,          \* the caller's list, the argument of process_trades
    sorted_trades,   \* process_trades: its sorted copy
    idx,             \* process_trades: index of the next trade of the loop
    phase,           \* the engine: "empty", "replay" (in the loop), "populated"
    positions,       \* PositionEngine.positions
    all_realized_pl, \* PositionEngine.all_realized_pl
    stdout,          \* ids of the trades the running call of process_trades
                     \* printed a message for
    replaced         \* one entry per call of process_trades: did the engine
                     \* hold positions when it was called?

posVars == <<position, calls, last>>

fltVars == <<mant_dig>>

engVars == <<trades, sorted_trades, idx, phase, positions, all_realized_pl,
             stdout, replaced>>

vars == <<position, calls, last, trades, sorted_trades, idx, phase, positions,
          all_realized_pl, stdout, replaced, mant_dig>>

\* ------------------------------------------------------------------------
\* Direct calls of Position.add_buy and Position.process_sell
\* ------------------------------------------------------------------------
\* number of method calls on the position
MaxCalls == 3

\* argument values of the calls
BuyShares == {Flt(3), Flt(6)}

BuyPrices == {Flt(1), Flt(3)}

SellShares == {Flt(3), Flt(8)}

SellPrices == {Flt(2)}

Fees == {Zero, Flt(1)}

Dates == {1, 2}

\* the market prices get_unrealized_pl is asked about
CurrentPrices == {Zero, Flt(1), Flt(2)}

Call(op, shares, price_usd, trade_date, trade_id, trade_fee_usd, raised, ret, loop) ==
    [op |-> op, shares |-> shares, price_usd |-> price_usd,
     trade_date |-> trade_date, trade_id |-> trade_id,
     trade_fee_usd |-> trade_fee_usd, raised |-> raised, ret |-> ret,
     loop |-> loop]

\* Position("A") and PositionEngine(), on floats of the given width
Start(bits) ==
    /\ mant_dig = bits
    /\ position = NewPosition(<<"A">>)
    /\ calls = 0
    /\ last = Call("new", Zero, Zero, 0, 0, Zero, FALSE, None, None)
    /\ trades = << >>
    /\ sorted_trades = << >>
    /\ idx = 0
    /\ phase = "empty"
    /\ positions = << >>
    /\ all_realized_pl = << >>
    /\ stdout = << >>
    /\ replaced = << >>

Init == Start(Prec)

\* position.add_buy(shares, price_usd, trade_date, trade_id, trade_fee_usd)
\* with arguments of the given sets
CallAddBuyWith(sharesSet, prices, fees) ==
    /\ \E shares \in sharesSet, price_usd \in prices,
          trade_date \in Dates, trade_fee_usd \in fees :
          /\ position' = AddBuy(position, shares, price_usd, trade_date,
                                calls + 1, trade_fee_usd)
          /\ last' = Call("add_buy", shares, price_usd, trade_date, calls + 1,
                          trade_fee_usd, FALSE, None, None)
    /\ calls' = calls + 1
    /\ UNCHANGED <<engVars, fltVars>>

\* add_buy with the arguments the trade schema lets through
CallAddBuy ==
    /\ calls < MaxCalls
    /\ CallAddBuyWith(BuyShares, BuyPrices, Fees)

\* position.process_sell(shares, price_usd, trade_date, trade_id, trade_fee_usd),
\* returning or raising ValueError, with arguments of the given sets
CallProcessSellWith(sharesSet, fees) ==
    /\ \E shares \in sharesSet,
          price_usd \in SellPrices, trade_date \in Dates,
          trade_fee_usd \in fees :
          \E r \in {ProcessSell(position, shares, price_usd, trade_date,
                                 calls + 1, trade_fee_usd)} :
              /\ position' = r.pos
              /\ last' = Call("process_sell", shares, price_usd, trade_date,
                              calls + 1, trade_fee_usd, r.raised, r.ret,
                              r.loop)
    /\ calls' = calls + 1
    /\ UNCHANGED <<engVars, fltVars>>

\* process_sell of the quantities of the trade schema, or of all that is held
CallProcessSell ==
    /\ calls < MaxCalls
    /\ CallProcessSellWith(SellShares \cup {position.total_shares}, Fees)

Next == CallAddBuy \/ CallProcessSell

Spec == Init /\ [][Next]_vars

\* ------------------------------------------------------------------------
\* Direct calls with lots that cost nothing
\* ------------------------------------------------------------------------
\* add_buy takes any price: Position does not validate its arguments
FreePrices == {Zero, Flt(1)}

CallAddBuyFree ==
    /\ calls < MaxCalls
    /\ CallAddBuyWith({Flt(3)}, FreePrices, {Zero})

NextFree == CallAddBuyFree \/ CallProcessSell

SpecFree == Init /\ [][NextFree]_vars

\* ------------------------------------------------------------------------
\* Direct calls with share counts whose sum no float holds
\* ------------------------------------------------------------------------
\* number of method calls on the position
MaxUnevenCalls == 4

\* as 0.1 + 0.2 in CPython: 5 + 6 has one bit more than the two
UnevenShares == {Flt(5), Flt(6)}

CallAddBuyUneven ==
    /\ calls < MaxUnevenCalls
    /\ CallAddBuyWith(UnevenShares, {Flt(1)}, {Zero})

\* a sell of the first lot's size, of more, or of all that is held
CallProcessSellUneven ==
    /\ calls < MaxUnevenCalls
    /\ CallProcessSellWith({Flt(5), Flt(8), position.total_shares}, {Zero})

NextUneven == CallAddBuyUneven \/ CallProcessSellUneven

SpecUneven == Init /\ [][NextUneven]_vars

\* ------------------------------------------------------------------------
\* PositionEngine.process_trades
\* ------------------------------------------------------------------------
\* length of the trade list
MaxTrades == 3

\* the tickers as callers write them
Tickers == {<<"A">>, <<"a">>, <<"M">>}

\* the order size of each ticker and side
SharesOf(ticker, side) ==
    IF side = "SELL" THEN Flt(3)
    ELSE IF ticker = <<"A">> THEN Flt(1)
    ELSE IF ticker = <<"a">> THEN Flt(10)
    ELSE Flt(3)

Sides == {"BUY", "SELL"}

\* the day the queries are made on: date.today()
Today == 3

\* the tickers get_position is asked for
Queries == Tickers \cup {<<"m">>, <<"Z">>}

\* what a trade has beside its id
TradeShapes == [ticker : Tickers, side : Sides, trade_date : Dates]

Trade(id, shape) ==
    [id |-> id, ticker |-> shape.ticker, side |-> shape.side,
     shares |-> SharesOf(shape.ticker, shape.side),
     price_usd |-> IF shape.side = "BUY" THEN Flt(1) ELSE Flt(2),
     trade_date |-> shape.trade_date, fee_usd |-> Zero]

\* orders of a list of n trades: the rotations of 1..n and of n..1, which
\* are all the orders there are when n <= 3
Orders(n) ==
    {[i \in 1..n |-> ((i + r - 1) % n) + 1] : r \in 0..(n - 1)}
    \cup {[i \in 1..n |-> n - ((i + r - 1) % n)] : r \in 0..(n - 1)}

\* the orders in which the caller hands over the trades 1..n: oldest id
\* first, or newest id first
HandOvers(n) == {[i \in 1..n |-> i], [i \in 1..n |-> n + 1 - i]}

\* the list trades, handed over in the given order
Permuted(list, order) == [i \in DOMAIN list |-> list[order[i]]]

\* PositionEngine.__init__: the fields of the engine
NewEngine == [positions |-> << >>, all_realized_pl |-> << >>, stdout |-> << >>]

\* Apply that creates the Position of a ticker only with a trade it applies
ApplyLazy(eng, trade) ==
    LET ticker == Upper(trade.ticker)
        dict == WithPosition(eng.positions, ticker)
        i == IndexOf(dict, ticker)
    IN  IF trade.side = "BUY"
        THEN [eng EXCEPT !.positions =
                [dict EXCEPT ![i] = AddBuy(@, trade.shares, trade.price_usd,
                                          trade.trade_date, trade.id,
                                          trade.fee_usd)]]
        ELSE IF trade.side = "SELL"
        THEN LET r == ProcessSell(dict[i], trade.shares, trade.price_usd,
                                  trade.trade_date, trade.id, trade.fee_usd)
             IN  IF r.raised
                 THEN [eng EXCEPT !.stdout = Append(@, trade.id)]
                 ELSE [eng EXCEPT !.positions = [dict EXCEPT ![i] = r.pos],
                                  !.all_realized_pl = Append(@, r.ret)]
        ELSE eng

\* process_trades: the body of the loop for one trade, on the engine's fields
Apply(eng, trade) ==
    LET ticker == Upper(trade.ticker)
        dict == WithPosition(eng.positions, ticker)
        i == IndexOf(dict, ticker)
    IN  IF trade.side = "BUY"
        THEN [eng EXCEPT !.positions =
                [dict EXCEPT ![i] = AddBuy(@, trade.shares, trade.price_usd,
                                          trade.trade_date, trade.id,
                                          trade.fee_usd)]]
        ELSE IF trade.side = "SELL"
        THEN LET r == ProcessSell(dict[i], trade.shares, trade.price_usd,
                                  trade.trade_date, trade.id, trade.fee_usd)
             IN  IF r.raised
                 THEN [eng EXCEPT !.positions = dict,
                                  !.stdout = Append(@, trade.id)]
                 ELSE [eng EXCEPT !.positions = [dict EXCEPT ![i] = r.pos],
                                  !.all_realized_pl = Append(@, r.ret)]
        ELSE [eng EXCEPT !.positions = dict]

\* AfterSkip with break in place of continue
AfterSkipBreak(i, n) == n + 1

\* process_trades: where the loop goes after the except branch (continue)
AfterSkip(i, n) == i + 1

RECURSIVE RunFrom(_, _)
RunFrom(list, eng) ==
    IF list = << >> THEN eng
    ELSE RunFrom(Tail(list), Apply(eng, Head(list)))

\* process_trades as a whole: the engine's fields when it returns
RunTrades(list) == RunFrom(Sorted(list), NewEngine)

\* Reset that keeps what the engine holds
ResetKeep(eng) == eng

\* process_trades: self.positions = {}; self.all_realized_pl = []
Reset(eng) == [eng EXCEPT !.positions = << >>, !.all_realized_pl = << >>]

\* the engine's fields
Engine ==
    [positions |-> positions, all_realized_pl |-> all_realized_pl,
     stdout |-> stdout]

\* Enter with trades.sort(key=...) in place of sorted(trades, key=...): the
\* caller's list is put in replay order
EnterSortInPlace(input) ==
    /\ trades' = Sorted(input)
    /\ sorted_trades' = Sorted(input)
    /\ positions' = Reset(Engine).positions
    /\ all_realized_pl' = Reset(Engine).all_realized_pl
    /\ idx' = 1
    /\ phase' = "replay"
    /\ stdout' = << >>
    /\ replaced' = Append(replaced, positions # << >>)
    /\ UNCHANGED <<posVars, fltVars>>

\* engine.process_trades(input): reset, sort, enter the loop
Enter(input) ==
    /\ trades' = input
    /\ sorted_trades' = Sorted(input)
    /\ positions' = Reset(Engine).positions
    /\ all_realized_pl' = Reset(Engine).all_realized_pl
    /\ idx' = 1
    /\ phase' = "replay"
    /\ stdout' = << >>
    /\ replaced' = Append(replaced, positions # << >>)
    /\ UNCHANGED <<posVars, fltVars>>

\* engine.process_trades(trades) with a list of at most maxLen trades of
\* the given shapes
CallProcessTrades(maxLen, shapes) ==
    \E n \in 0..maxLen :
        \E shape \in [1..n -> shapes], order \in HandOvers(n) :
            \E input \in {[i \in 1..n |-> Trade(order[i], shape[order[i]])]} :
                Enter(input)

\* the first call of process_trades on the engine
ProcessTrades ==
    /\ phase = "empty"
    /\ CallProcessTrades(MaxTrades, TradeShapes)

\* the loop's current trade and the engine's fields after it
CurTrade == sorted_trades[idx]

Applied == Apply(Engine, CurTrade)

InLoop == phase = "replay" /\ idx <= Len(sorted_trades)

\* process_sell raises for the loop's current trade
CurRaises ==
    LET ticker == Upper(CurTrade.ticker)
        dict == WithPosition(positions, ticker)
    IN  Oversell(dict[IndexOf(dict, ticker)], CurTrade.shares)

\* one iteration of the loop on a BUY
ReplayBuy ==
    /\ InLoop
    /\ CurTrade.side = "BUY"
    /\ LET eng == Applied
       IN  /\ positions' = eng.positions
           /\ all_realized_pl' = eng.all_realized_pl
           /\ stdout' = eng.stdout
    /\ idx' = idx + 1
    /\ UNCHANGED <<trades, sorted_trades, phase, replaced, posVars, fltVars>>

\* one iteration of the loop on a SELL that process_sell accepts
ReplaySell ==
    /\ InLoop
    /\ CurTrade.side = "SELL"
    /\ ~CurRaises
    /\ LET eng == Applied
       IN  /\ positions' = eng.positions
           /\ all_realized_pl' = eng.all_realized_pl
           /\ stdout' = eng.stdout
    /\ idx' = idx + 1
    /\ UNCHANGED <<trades, sorted_trades, phase, replaced, posVars, fltVars>>

\* one iteration of the loop on a SELL for which process_sell raises
\* ValueError: the except branch prints and continues
ReplaySkip ==
    /\ InLoop
    /\ CurTrade.side = "SELL"
    /\ CurRaises
    /\ LET eng == Applied
       IN  /\ positions' = eng.positions
           /\ all_realized_pl' = eng.all_realized_pl
           /\ stdout' = eng.stdout
    /\ idx' = AfterSkip(idx, Len(sorted_trades))
    /\ UNCHANGED <<trades, sorted_trades, phase, replaced, posVars, fltVars>>

\* the loop is over: process_trades returns
ProcessTradesReturn ==
    /\ phase = "replay"
    /\ idx > Len(sorted_trades)
    /\ phase' = "populated"
    /\ UNCHANGED <<trades, sorted_trades, idx, positions, all_realized_pl,
                   stdout, replaced, posVars, fltVars>>

NextEngine ==
    \/ ProcessTrades
    \/ ReplayBuy
    \/ ReplaySell
    \/ ReplaySkip
    \/ ProcessTradesReturn

SpecEngine == Init /\ [][NextEngine]_vars

\* one engine, one call of process_trades: the specification under which the
\* properties of the replay order and of the per-ticker positions are checked
SpecReplay == Init /\ [][NextEngine]_vars

\* ------------------------------------------------------------------------
\* PositionEngine.process_trades called again on the same engine
\* ------------------------------------------------------------------------
\* number of calls of process_trades on the engine, and the length of their
\* lists
MaxRuns == 2

MaxAgainTrades == 2

\* their trades are all of one day
AgainShapes == {shape \in TradeShapes : shape.trade_date = 1}

\* the first call, with a short list
ProcessTradesFirst ==
    /\ phase = "empty"
    /\ CallProcessTrades(MaxAgainTrades, AgainShapes)

\* a later call, after the earlier one returned
ProcessTradesAgain ==
    /\ phase = "populated"
    /\ Len(replaced) < MaxRuns
    /\ CallProcessTrades(MaxAgainTrades, AgainShapes)

NextAgain ==
    \/ ProcessTradesFirst
    \/ ProcessTradesAgain
    \/ ReplayBuy
    \/ ReplaySell
    \/ ReplaySkip
    \/ ProcessTradesReturn

SpecAgain == Init /\ [][NextAgain]_vars

\* ------------------------------------------------------------------------
\* PositionEngine.process_trades on lists with several sells
\* ------------------------------------------------------------------------
\* length of the trade list
MaxLedgerTrades == 5

\* the order sizes: A is bought and sold in threes, M bought in twelves and
\* sold in sixes
LedgerShares(ticker, side) ==
    IF ticker = <<"A">> THEN Flt(3)
    ELSE IF side = "BUY" THEN Flt(12) ELSE Flt(6)

LedgerShapes == [ticker : {<<"A">>, <<"M">>}, side : Sides]

\* the trades are of one day, in the order of their ids
LedgerTrade(id, shape) ==
    [id |-> id, ticker |-> shape.ticker, side |-> shape.side,
     shares |-> LedgerShares(shape.ticker, shape.side),
     price_usd |-> IF shape.side = "BUY" THEN Flt(1) ELSE Flt(2),
     trade_date |-> 1, fee_usd |-> Zero]

ProcessTradesLedger ==
    /\ phase = "empty"
    /\ \E n \in 0..MaxLedgerTrades :
          \E shape \in [1..n -> LedgerShapes] :
             \E input \in {[i \in 1..n |-> LedgerTrade(i, shape[i])]} :
                Enter(input)

NextLedger ==
    \/ ProcessTradesLedger
    \/ ReplayBuy
    \/ ReplaySell
    \/ ReplaySkip
    \/ ProcessTradesReturn

SpecLedger == Init /\ [][NextLedger]_vars

\* ------------------------------------------------------------------------
\* PositionEngine.process_trades on a list its caller holds
\* ------------------------------------------------------------------------
\* the caller builds its list: one to MaxTrades trades, oldest id first or
\* newest id first
BuildTrades ==
    /\ phase = "empty"
    /\ trades = << >>
    /\ \E n \in 1..MaxTrades :
          \E shape \in [1..n -> TradeShapes], order \in HandOvers(n) :
             trades' = [i \in 1..n |-> Trade(order[i], shape[order[i]])]
    /\ UNCHANGED <<sorted_trades, idx, phase, positions, all_realized_pl,
                   stdout, replaced, posVars, fltVars>>

\* engine.process_trades(trades) on that list
ProcessTradesBuilt ==
    /\ phase = "empty"
    /\ trades # << >>
    /\ Enter(trades)

NextCaller ==
    \/ BuildTrades
    \/ ProcessTradesBuilt
    \/ ReplayBuy
    \/ ReplaySell
    \/ ReplaySkip
    \/ ProcessTradesReturn

SpecCaller == Init /\ [][NextCaller]_vars

\* ------------------------------------------------------------------------
\* The trade list of test_position_engine
\* ------------------------------------------------------------------------
\* the float a decimal literal num/den denotes: the nearest one
Decimal(num, den) == FDiv([m |-> num, e |-> 0], [m |-> den, e |-> 0])

AAPL == <<"A", "A", "P", "L">>

MSFT == <<"M", "S", "F", "T">>

\* the list of the test; a date is written as the number yyyymmdd
ScenarioTrades ==
    <<[id |-> 1, ticker |-> AAPL, side |-> "BUY", shares |-> Flt(10),
       price_usd |-> Flt(100), fee_usd |-> Zero, trade_date |-> 20240110],
      [id |-> 2, ticker |-> AAPL, side |-> "BUY", shares |-> Flt(5),
       price_usd |-> Flt(120), fee_usd |-> Zero, trade_date |-> 20240202],
      [id |-> 3, ticker |-> AAPL, side |-> "SELL", shares |-> Flt(8),
       price_usd |-> Flt(130), fee_usd |-> Decimal(16, 10),
       trade_date |-> 20240315],
      [id |-> 4, ticker |-> MSFT, side |-> "BUY", shares |-> Flt(3),
       price_usd |-> Flt(300), fee_usd |-> Zero, trade_date |-> 20240401],
      [id |-> 5, ticker |-> MSFT, side |-> "SELL", shares |-> Flt(3),
       price_usd |-> Flt(350), fee_usd |-> Zero, trade_date |-> 20240601]>>

\* every order of 1..n
AllOrders(n) ==
    {o \in [1..n -> 1..n] : \A i, j \in 1..n : i # j => o[i] # o[j]}

InitScenario == Start(ScenarioPrec)

\* engine.process_trades(trades), the list handed over in any order
ProcessTradesScenario ==
    /\ phase = "empty"
    /\ \E order \in AllOrders(Len(ScenarioTrades)) :
          \E input \in {Permuted(ScenarioTrades, order)} : Enter(input)

NextScenario ==
    \/ ProcessTradesScenario
    \/ ReplayBuy
    \/ ReplaySell
    \/ ProcessTradesReturn

SpecScenario == InitScenario /\ [][NextScenario]_vars

\* ------------------------------------------------------------------------
\* The sell simulation of the API (simulate_sell)
\* ------------------------------------------------------------------------
\* simulate_sell: the quantity taken from a lot, min(shares_remaining,
\* lot.remaining_shares)
SharesFromLot(shares_remaining, lot) ==
    IF FLt(lot.remaining_shares, shares_remaining)
    THEN lot.remaining_shares ELSE shares_remaining

RECURSIVE SimulateWalk(_, _, _)
\* simulate_sell: the first loop over position_obj.lots, which reads the lots
\* and builds matched_lots and realized_pl; st holds the loop's variables
SimulateWalk(lots, st, current_price) ==
    IF lots = << >> \/ FLe(st.shares_remaining, Zero) THEN st
    ELSE LET lot == Head(lots)
             shares_from_lot == SharesFromLot(st.shares_remaining, lot)
             cost_basis == FMul(shares_from_lot, lot.price_usd)
             proceeds == FMul(shares_from_lot, current_price)
             pl_from_lot == FSub(proceeds, cost_basis)
         IN  CHOOSE out \in
               {SimulateWalk(Tail(lots), s, current_price) :
                  s \in {[matched_lots |->
                            Append(st.matched_lots,
                                   [buy_date |-> IsoFormat(lot.trade_date),
                                    buy_price |-> lot.price_usd,
                                    buy_trade_id |-> lot.trade_id,
                                    shares |-> shares_from_lot,
                                    cost_basis |-> cost_basis,
                                    proceeds |-> proceeds,
                                    pl |-> pl_from_lot]),
                          realized_pl |-> FAdd(st.realized_pl, pl_from_lot),
                          shares_remaining |->
                            FSub(st.shares_remaining, shares_from_lot)]}} :
               TRUE

RECURSIVE LotSharesSold(_, _, _)
\* simulate_sell: the quantity of matched_lots that carries the lot's trade id
LotSharesSold(matched_lots, trade_id, acc) ==
    IF matched_lots = << >> THEN acc
    ELSE LotSharesSold(Tail(matched_lots), trade_id,
                       IF Head(matched_lots).buy_trade_id = trade_id
                       THEN FAdd(acc, Head(matched_lots).shares) ELSE acc)

RECURSIVE RemainingWalk(_, _, _)
\* simulate_sell: the second loop over position_obj.lots, which adds up what
\* the sell would leave of each lot; st is <<remaining_cost, shares_accounted>>
RemainingWalk(lots, matched_lots, st) ==
    IF lots = << >> THEN st
    ELSE LET lot == Head(lots)
             remaining_in_lot ==
                 FSub(lot.remaining_shares,
                      LotSharesSold(matched_lots, lot.trade_id, Zero))
         IN  CHOOSE out \in
               {RemainingWalk(Tail(lots), matched_lots, s) :
                  s \in {IF FGt(remaining_in_lot, Zero)
                         THEN <<FAdd(st[1], FMul(remaining_in_lot,
                                                 lot.price_usd)),
                                FAdd(st[2], remaining_in_lot)>>
                         ELSE st}} : TRUE

\* simulate_sell on the Position the replay left for the ticker
\* (position_obj, None when there is none) at the price the price service
\* gave: the HTTP status and, with 200, the body (without its tax fields,
\* which are computed from gross_pl_usd alone)
SimulateSell(position_obj, shares_to_sell, current_price) ==
    IF position_obj = None \/ IsClosed(position_obj[1])
    THEN [status |-> 404]
    ELSE IF FGt(shares_to_sell, position_obj[1].total_shares)
    THEN [status |-> 400]
    ELSE IF current_price = Zero
    THEN [status |-> 404]
    ELSE
    LET pos == position_obj[1]
        current_shares == pos.total_shares
        Body(walk) ==
            LET remaining_shares == FSub(current_shares, shares_to_sell)
                rest == IF FGt(remaining_shares, Zero)
                        THEN RemainingWalk(pos.lots, walk.matched_lots,
                                           <<Zero, Zero>>)
                        ELSE <<Zero, Zero>>
                remaining_cost == rest[1]
                shares_accounted == rest[2]
                new_market_value == FMul(remaining_shares, current_price)
                new_unrealized_pl == FSub(new_market_value, remaining_cost)
            IN  [status |-> 200,
                 shares_to_sell |-> shares_to_sell,
                 sell_price_usd |-> current_price,
                 current_shares |-> current_shares,
                 current_avg_cost_usd |-> GetAvgCost(pos),
                 gross_pl_usd |-> walk.realized_pl,
                 remaining_shares |-> remaining_shares,
                 new_avg_cost |->
                    IF FGt(remaining_shares, Zero)
                       /\ FGt(shares_accounted, Zero)
                    THEN FDiv(remaining_cost, shares_accounted) ELSE Zero,
                 new_market_value |->
                    IF FGt(remaining_shares, Zero)
                    THEN new_market_value ELSE Zero,
                 new_unrealized_pl |->
                    IF FGt(remaining_shares, Zero)
                    THEN new_unrealized_pl ELSE Zero,
                 new_unrealized_pl_percent |->
                    IF FGt(remaining_shares, Zero)
                       /\ FGt(remaining_cost, Zero)
                    THEN FMul(FDiv(new_unrealized_pl, remaining_cost),
                              Hundred)
                    ELSE Zero,
                 matched_lots |-> walk.matched_lots]
    IN  CHOOSE out \in
          {Body(walk) :
             walk \in {SimulateWalk(pos.lots,
                                    [matched_lots |-> << >>,
                                     realized_pl |-> Zero,
                                     shares_remaining |-> shares_to_sell],
                                    current_price)}} : TRUE

\* the quantity the simulation is asked about (the query requires > 0): part
\* of a lot of 6, a lot of 3 and part of the next, or more than a lot of 3
SimulatedShares == {Flt(4)}

\* the prices the price service answers with, 0 when it has none
SimulatedPrices == {Zero, Flt(2)}

\* GET /api/simulation/sell/ for the ticker of the position: the Position
\* the replay of the stored trades gives is the one the calls so far have
\* built, and the request changes nothing of it
CallSimulateSell ==
    /\ \E shares_to_sell \in SimulatedShares \cup {position.total_shares},
          current_price \in SimulatedPrices :
          /\ FGt(shares_to_sell, Zero)
          /\ \E r \in {SimulateSell(<<position>>, shares_to_sell,
                                    current_price)} :
                last' = Call("simulate_sell", shares_to_sell, current_price,
                             0, 0, Zero, r.status # 200, r, None)
    /\ UNCHANGED <<position, calls, engVars, fltVars>>

NextSimulation == CallAddBuy \/ CallProcessSell \/ CallSimulateSell

SpecSimulation == Init /\ [][NextSimulation]_vars

\* ------------------------------------------------------------------------
\* Properties of Position
\* ------------------------------------------------------------------------
\* the step is a call of process_sell that returned (did not raise)
SoldStep == last'.op = "process_sell" /\ ~last'.raised

\* a lot of the queue, identified by everything but its remaining quantity
SameLot(a, b) == [a EXCEPT !.remaining_shares = Zero]
                 = [b EXCEPT !.remaining_shares = Zero]

\* C1: process_sell matches strictly first-in-first-out.  An accepted sell
\* pops k >= 0 lots off the front of the queue, each of them consumed
\* entirely (fragment j takes the whole remaining quantity of the j-th lot of
\* the old queue, at that lot's unit price), and reduces at most the one lot
\* that is then at the front; every lot behind it is left untouched and the
\* order of the queue is kept.
FifoStep ==
    SoldStep =>
        LET old == position.lots
            new == position'.lots
            m == last'.ret.matched_lots
            k == Len(old) - Len(new)
        IN  /\ k >= 0
            /\ Len(m) \in {k, k + 1}
            /\ \A j \in 1..Len(m) :
                  /\ m[j].buy_trade_id = old[j].trade_id
                  /\ m[j].cost_basis = FMul(m[j].shares, old[j].price_usd)
            /\ \A j \in 1..k : m[j].shares = old[j].remaining_shares
            /\ \A i \in 1..Len(new) : SameLot(new[i], old[i + k])
            /\ \A i \in 2..Len(new) : new[i] = old[i + k]
            /\ Len(new) > 0 /\ new[1] # old[k + 1] =>
                  /\ Len(m) = k + 1
                  /\ FLt(new[1].remaining_shares, old[k + 1].remaining_shares)

FifoMatching == [][FifoStep]_vars

\* C1 witness: a sell that ate the whole first lot and part of the second
FifoWitness ==
    /\ last.op = "process_sell" /\ ~last.raised
    /\ Len(last.ret.matched_lots) = 2
    /\ Len(position.lots) = 1
    /\ position.lots[1].remaining_shares # position.lots[1].shares
    /\ position.lots[1].trade_id = last.ret.matched_lots[2].buy_trade_id

\* C2: process_sell with shares > total_shares raises and changes nothing
OversellStep ==
    last'.op = "process_sell" /\ FGt(last'.shares, position.total_shares) =>
        last'.raised /\ position' = position

OversellRejected == [][OversellStep]_vars

\* C2 witness: a rejected sell on a position that holds lots
OversellWitness ==
    /\ last.op = "process_sell" /\ last.raised
    /\ Len(position.lots) > 0
    /\ Len(position.realized_history) > 0

RECURSIVE XSumRemaining(_)
\* the sum of remaining_shares over a lot queue, as a real number
XSumRemaining(lots) ==
    IF lots = << >> THEN Zero
    ELSE XAdd(Head(lots).remaining_shares, XSumRemaining(Tail(lots)))

RECURSIVE XSumCost(_)
\* the sum of remaining_shares * price_usd over a lot queue, as a real number
XSumCost(lots) ==
    IF lots = << >> THEN Zero
    ELSE XAdd(XMul(Head(lots).remaining_shares, Head(lots).price_usd),
              XSumCost(Tail(lots)))

RECURSIVE FSumRemaining(_, _)
\* the same sums in float arithmetic, front to back: sum(... for lot in lots)
FSumRemaining(lots, acc) ==
    IF lots = << >> THEN acc
    ELSE FSumRemaining(Tail(lots), FAdd(acc, Head(lots).remaining_shares))

RECURSIVE FSumCost(_, _)
FSumCost(lots, acc) ==
    IF lots = << >> THEN acc
    ELSE FSumCost(Tail(lots),
                  FAdd(acc, FMul(Head(lots).remaining_shares,
                                 Head(lots).price_usd)))

\* C5: total_shares is the sum of remaining_shares over the queued lots, and
\* total_cost the sum of remaining_shares * effective unit price over them
\* (the sums taken either exactly or in float arithmetic)
AggregateInvariant ==
    /\ \/ position.total_shares = XSumRemaining(position.lots)
       \/ position.total_shares = FSumRemaining(position.lots, Zero)
    /\ \/ position.total_cost = XSumCost(position.lots)
       \/ position.total_cost = FSumCost(position.lots, Zero)

\* C6: every queued lot has 0 < remaining_shares <= shares, so that a lot
\* whose remaining quantity reaches 0 is gone from the queue after that sell
LotInvariant ==
    \A i \in 1..Len(position.lots) :
        /\ FGt(position.lots[i].remaining_shares, Zero)
        /\ FLe(position.lots[i].remaining_shares, position.lots[i].shares)

\* C6 witness: a sell of exactly the front lot's remaining quantity removed
\* that lot and left the next one whole
LotWitness ==
    /\ last.op = "process_sell" /\ ~last.raised
    /\ Len(last.ret.matched_lots) = 1
    /\ last.ret.matched_lots[1].shares = last.shares
    /\ Len(position.lots) = 1
    /\ position.lots[1].trade_id # last.ret.matched_lots[1].buy_trade_id
    /\ position.lots[1].remaining_shares = position.lots[1].shares

\* C8: a process_sell of exactly total_shares leaves total_shares = 0,
\* total_cost = 0, no lots and is_closed(), and keeps realized_pl (with this
\* sell's P&L), realized_history and first_buy_date
LiquidationStep ==
    SoldStep /\ last'.shares = position.total_shares
             /\ FGt(last'.shares, Zero) =>
        /\ position'.total_shares = Zero
        /\ position'.total_cost = Zero
        /\ position'.lots = << >>
        /\ IsClosed(position')
        /\ position'.realized_pl = FAdd(position.realized_pl, last'.ret.pl_usd)
        /\ position'.realized_history
             = Append(position.realized_history, last'.ret)
        /\ position'.first_buy_date = position.first_buy_date
        /\ position'.first_buy_date # None

FullLiquidation == [][LiquidationStep]_vars

\* a float x equals the real number y, or the float expression z
Exactly(x, y, z) == x = y \/ x = z

RECURSIVE XSumBasis(_)
\* the sum of cost_basis over matched-lot fragments, as a real number
XSumBasis(m) ==
    IF m = << >> THEN Zero
    ELSE XAdd(XMul(Head(m).shares, Head(m).buy_price), XSumBasis(Tail(m)))

RECURSIVE FSumBasis(_, _)
\* the same sum in float arithmetic, first fragment first
FSumBasis(m, acc) ==
    IF m = << >> THEN acc
    ELSE FSumBasis(Tail(m), FAdd(acc, FMul(Head(m).shares, Head(m).buy_price)))

\* C9: an accepted process_sell lowers total_shares by shares and total_cost
\* by the record's total_cost_basis, which is the sum of fragment shares *
\* lot price, raises realized_pl by the record's pl_usd, appends one record
\* to realized_history and returns that record
SellEffectStep ==
    SoldStep =>
        LET r == last'.ret IN
        /\ Exactly(position'.total_shares,
                   XSub(position.total_shares, last'.shares),
                   FSub(position.total_shares, last'.shares))
        /\ Exactly(position'.total_cost,
                   XSub(position.total_cost, r.total_cost_basis),
                   FSub(position.total_cost, r.total_cost_basis))
        /\ Exactly(r.total_cost_basis, XSumBasis(r.matched_lots),
                   FSumBasis(r.matched_lots, Zero))
        /\ Exactly(position'.realized_pl,
                   XAdd(position.realized_pl, r.pl_usd),
                   FAdd(position.realized_pl, r.pl_usd))
        /\ position'.realized_history = Append(position.realized_history, r)

SellEffect == [][SellEffectStep]_vars

\* C10: add_buy appends one lot with remaining_shares = shares and unit
\* price price + fee/shares behind the unchanged lots, adds shares to
\* total_shares and shares*price + fee to total_cost, and leaves realized_pl
\* and realized_history alone
BuyEffectStep ==
    last'.op = "add_buy" =>
        LET c == last'
            lot == position'.lots[Len(position'.lots)]
        IN
        /\ position'.lots = Append(position.lots, lot)
        /\ lot.remaining_shares = c.shares
        /\ lot.shares = c.shares
        /\ lot.trade_id = c.trade_id
        /\ lot.price_usd
             = FAdd(c.price_usd,
                    IF c.trade_fee_usd = Zero THEN Zero
                    ELSE FDiv(c.trade_fee_usd, c.shares))
        /\ Exactly(position'.total_shares,
                   XAdd(position.total_shares, c.shares),
                   FAdd(position.total_shares, c.shares))
        /\ Exactly(position'.total_cost,
                   XAdd(position.total_cost,
                        XAdd(XMul(c.shares, c.price_usd), c.trade_fee_usd)),
                   FAdd(position.total_cost,
                        FAdd(FMul(c.shares, c.price_usd), c.trade_fee_usd)))
        /\ position'.realized_pl = position.realized_pl
        /\ position'.realized_history = position.realized_history

BuyEffect == [][BuyEffectStep]_vars

\* ------------------------------------------------------------------------
\* Properties of PositionEngine.process_trades
\* ------------------------------------------------------------------------
\* what the position of a ticker holds, 0 when the engine has none
Holdings(dict, ticker) ==
    IF IndexOf(dict, ticker) = 0 THEN Zero
    ELSE dict[IndexOf(dict, ticker)].total_shares

\* a position nothing has been applied to
Untouched(pos) == pos = NewPosition(pos.ticker)

\* the loop is about to handle a SELL of more than its ticker holds
SkipDue ==
    /\ InLoop
    /\ CurTrade.side = "SELL"
    /\ FGt(CurTrade.shares, Holdings(positions, Upper(CurTrade.ticker)))

\* the iteration that handles such a SELL adds no realized record, leaves
\* every position as it was (a position it creates is empty), and goes on to
\* the next trade
SkipStep ==
    SkipDue =>
        /\ all_realized_pl' = all_realized_pl
        /\ Len(positions') >= Len(positions)
        /\ \A i \in 1..Len(positions) : positions'[i] = positions[i]
        /\ \A i \in (Len(positions) + 1)..Len(positions') :
              Untouched(positions'[i])
        /\ phase' = "replay"
        /\ idx' = idx + 1

\* the lot of a BUY is in its position's queue or was matched by a sell
BuyApplied(t) ==
    \/ \E i \in 1..Len(positions) :
          /\ positions[i].ticker = Upper(t.ticker)
          /\ \E j \in 1..Len(positions[i].lots) :
                positions[i].lots[j].trade_id = t.id
    \/ \E i \in 1..Len(all_realized_pl) :
          \E j \in 1..Len(all_realized_pl[i].matched_lots) :
             all_realized_pl[i].matched_lots[j].buy_trade_id = t.id

\* a SELL has its realized record, unless it was skipped
SellApplied(t) ==
    \E i \in 1..Len(all_realized_pl) :
        all_realized_pl[i].trade_id_sell_ref = t.id

Skipped(t) == \E i \in 1..Len(stdout) : stdout[i] = t.id

\* when process_trades has returned, every trade of the list was handled
AllHandled ==
    \A k \in 1..Len(trades) :
        LET t == trades[k]
        IN  IF t.side = "BUY" THEN BuyApplied(t)
            ELSE SellApplied(t) # Skipped(t)

\* C3: in process_trades a SELL of more than its ticker holds is skipped -
\* no realized record, no change to any position's shares, lots, cost or
\* realized P&L - and replay goes on: every other trade is still applied
\* and process_trades returns
SkipAndContinue ==
    /\ [][SkipStep]_vars
    /\ [](phase = "populated" => AllHandled)

\* C3 witness: process_trades returned after skipping a SELL and applying a
\* later BUY of the same ticker
SkipWitness ==
    /\ phase = "populated"
    /\ \E i, j \in 1..Len(sorted_trades) :
          /\ i < j
          /\ Skipped(sorted_trades[i])
          /\ sorted_trades[j].side = "BUY"
          /\ Upper(sorted_trades[j].ticker) = Upper(sorted_trades[i].ticker)
          /\ BuyApplied(sorted_trades[j])
          /\ i > 1

\* the caller's list is in the order of its ids
InIdOrder == \A i \in 1..Len(trades) : trades[i].id = i

\* C4: for a trade list with unique ids, process_trades gives the same
\* positions (in the same order, with the same lot queues and average
\* costs) and the same realized records in the same order, whatever the
\* order the list is handed over in: the result for the list in id order
\* is the result for each of its permutations
Determinism ==
    phase = "populated" /\ InIdOrder =>
        \A o \in Orders(Len(trades)) :
            LET r == RunTrades(Permuted(trades, o))
            IN  /\ r.positions = positions
                /\ r.all_realized_pl = all_realized_pl
                /\ \A i \in 1..Len(positions) :
                      GetAvgCost(r.positions[i]) = GetAvgCost(positions[i])

\* C4 witness: a list with two same-day buys of one ticker and a sell that
\* took the one with the smaller id, which comes later in some hand-over
DeterminismWitness ==
    /\ phase = "populated"
    /\ InIdOrder
    /\ \E i, j \in 1..Len(trades) :
          /\ i < j
          /\ trades[i].trade_date = trades[j].trade_date
          /\ trades[i].side = "BUY" /\ trades[j].side = "BUY"
          /\ Upper(trades[i].ticker) = Upper(trades[j].ticker)
          /\ trades[i].shares # trades[j].shares
          /\ \E o \in Orders(Len(trades)) :
                Permuted(trades, o)[1] = trades[j]
    /\ Len(all_realized_pl) = 1

RECURSIVE XNetShares(_, _, _)
\* shares of a ticker bought minus shares sold by the first n trades of the
\* replay order, a skipped SELL selling nothing; as a real number
XNetShares(ticker, n, skipped) ==
    IF n = 0 THEN Zero
    ELSE LET t == sorted_trades[n]
             rest == XNetShares(ticker, n - 1, skipped)
         IN  IF Upper(t.ticker) # ticker \/ t.id \in skipped THEN rest
             ELSE IF t.side = "BUY" THEN XAdd(rest, t.shares)
             ELSE XSub(rest, t.shares)

RECURSIVE FNetShares(_, _, _)
\* the same, each trade added or subtracted in floats as it is replayed
FNetShares(ticker, n, skipped) ==
    IF n = 0 THEN Zero
    ELSE LET t == sorted_trades[n]
             rest == FNetShares(ticker, n - 1, skipped)
         IN  IF Upper(t.ticker) # ticker \/ t.id \in skipped THEN rest
             ELSE IF t.side = "BUY" THEN FAdd(rest, t.shares)
             ELSE FSub(rest, t.shares)

RECURSIVE FSumShares(_, _, _, _)
\* the float sum of the shares of a ticker's trades of one side among the
\* first n of the replay order
FSumShares(ticker, side, n, skipped) ==
    IF n = 0 THEN Zero
    ELSE LET t == sorted_trades[n]
             rest == FSumShares(ticker, side, n - 1, skipped)
         IN  IF Upper(t.ticker) # ticker \/ t.side # side \/ t.id \in skipped
             THEN rest
             ELSE FAdd(rest, t.shares)

\* C7: at every point of the replay each position's total_shares is the sum
\* of the shares its ticker's BUYs brought so far minus the shares its
\* applied SELLs took (as real numbers, or in floats trade by trade, or as
\* the difference of the two float sums), and is not negative
Conservation ==
    phase # "empty" =>
        \A i \in 1..Len(positions) :
            \E n \in {Min(idx - 1, Len(sorted_trades))},
               skipped \in {{stdout[k] : k \in 1..Len(stdout)}} :
                /\ \/ positions[i].total_shares
                        = XNetShares(positions[i].ticker, n, skipped)
                   \/ positions[i].total_shares
                        = FNetShares(positions[i].ticker, n, skipped)
                   \/ positions[i].total_shares
                        = FSub(FSumShares(positions[i].ticker, "BUY", n,
                                          skipped),
                               FSumShares(positions[i].ticker, "SELL", n,
                                          skipped))
                /\ FLe(Zero, positions[i].total_shares)

\* ------------------------------------------------------------------------
\* The sell fee
\* ------------------------------------------------------------------------
RECURSIVE XSumPl(_)
\* the sum of pl over matched-lot fragments, as a real number
XSumPl(m) ==
    IF m = << >> THEN Zero ELSE XAdd(Head(m).pl, XSumPl(Tail(m)))

RECURSIVE FSumPl(_, _)
\* the same sum in float arithmetic, first fragment first
FSumPl(m, acc) ==
    IF m = << >> THEN acc ELSE FSumPl(Tail(m), FAdd(acc, Head(m).pl))

\* C11: the fee of an accepted sell is taken once from the sell's total and
\* from no fragment: every fragment has proceeds = its shares * sell price
\* and pl = proceeds - cost_basis, and the record's pl_usd is the sum of the
\* fragments' pl less the fee, which is shares * sell price less
\* total_cost_basis less the fee (each taken exactly or in floats)
SellFeeStep ==
    SoldStep =>
        LET r == last'.ret IN
        /\ \A i \in 1..Len(r.matched_lots) :
              LET f == r.matched_lots[i] IN
              /\ Exactly(f.proceeds, XMul(f.shares, r.sell_price),
                         FMul(f.shares, r.sell_price))
              /\ Exactly(f.pl, XSub(f.proceeds, f.cost_basis),
                         FSub(f.proceeds, f.cost_basis))
        /\ Exactly(r.pl_usd,
                   XSub(XSumPl(r.matched_lots), r.trade_fee_usd),
                   FSub(FSumPl(r.matched_lots, Zero), r.trade_fee_usd))
        /\ Exactly(r.pl_usd,
                   XSub(XSub(XMul(r.shares, r.sell_price),
                             r.total_cost_basis), r.trade_fee_usd),
                   FSub(FSub(FMul(r.shares, r.sell_price),
                             r.total_cost_basis), r.trade_fee_usd))

SellFee == [][SellFeeStep]_vars

\* ------------------------------------------------------------------------
\* process_trades replaces the engine's state
\* ------------------------------------------------------------------------
\* what a fresh engine holds when process_trades, given the list trades, is
\* about to handle the trade number idx of the replay order
Fresh ==
    RunFrom(SubSeq(Sorted(trades), 1, Min(idx - 1, Len(trades))), NewEngine)

\* C12: whatever process_trades was called with before, the engine is, all
\* through a call and when it has returned, in the state of a fresh engine
\* given the same list: nothing of the earlier call is left or doubled
FullyReplaced ==
    phase # "empty" =>
        /\ positions = Fresh.positions
        /\ all_realized_pl = Fresh.all_realized_pl
        /\ GetTotalRealizedPl(positions) = GetTotalRealizedPl(Fresh.positions)

\* C12 witness: a second call has returned; the engine held positions when
\* it was called and holds positions and a realized record now
ReplacedWitness ==
    /\ phase = "populated"
    /\ Len(replaced) = 2
    /\ replaced[2]
    /\ positions # << >>
    /\ all_realized_pl # << >>

\* ------------------------------------------------------------------------
\* Replay order
\* ------------------------------------------------------------------------
\* (date1, id1) < (date2, id2)
Precedes(date1, id1, date2, id2) ==
    date1 < date2 \/ (date1 = date2 /\ id1 < id2)

\* the trade of the caller's list with the given id
TradeOf(id) == trades[CHOOSE k \in 1..Len(trades) : trades[k].id = id]

\* C13: whatever order the list is handed over in, the replay order is the
\* list in ascending (trade_date, id) order and the loop goes through it from
\* the front; so every position's lot queue is in ascending (trade_date,
\* trade id) order, and every lot a SELL matched is of a BUY of its ticker
\* that precedes the SELL in that order
ReplayOrder ==
    phase # "empty" =>
        /\ Len(sorted_trades) = Len(trades)
        /\ \A k \in 1..Len(trades) :
              \E n \in 1..Len(sorted_trades) : sorted_trades[n] = trades[k]
        /\ \A m, n \in 1..Len(sorted_trades) :
              m < n => Precedes(sorted_trades[m].trade_date,
                                sorted_trades[m].id,
                                sorted_trades[n].trade_date,
                                sorted_trades[n].id)
        /\ \A i \in 1..Len(positions) :
              \A m, n \in 1..Len(positions[i].lots) :
                 m < n => Precedes(positions[i].lots[m].trade_date,
                                   positions[i].lots[m].trade_id,
                                   positions[i].lots[n].trade_date,
                                   positions[i].lots[n].trade_id)
        /\ \A i \in 1..Len(all_realized_pl) :
              \A j \in 1..Len(all_realized_pl[i].matched_lots) :
                 LET sell == TradeOf(all_realized_pl[i].trade_id_sell_ref)
                     buy == TradeOf(all_realized_pl[i].matched_lots[j]
                                        .buy_trade_id)
                 IN  /\ sell.side = "SELL" /\ buy.side = "BUY"
                     /\ Upper(buy.ticker) = Upper(sell.ticker)
                     /\ Precedes(buy.trade_date, buy.id,
                                 sell.trade_date, sell.id)
        /\ \A n \in 1..Len(sorted_trades) :
              n < idx <=>
                 \/ BuyApplied(sorted_trades[n])
                 \/ SellApplied(sorted_trades[n])
                 \/ Skipped(sorted_trades[n])

\* C13 witness: a list handed over out of replay order has been replayed; a
\* position holds two lots and a SELL has matched a lot
ReplayOrderWitness ==
    /\ phase = "populated"
    /\ sorted_trades # trades
    /\ \E i \in 1..Len(positions) : Len(positions[i].lots) = 2
    /\ all_realized_pl # << >>

\* ------------------------------------------------------------------------
\* The engine's queries
\* ------------------------------------------------------------------------
\* the records of get_all_realized_pl_history() that refer to the trade t
RecordsOf(t) ==
    {i \in 1..Len(GetAllRealizedPlHistory(Engine)) :
        GetAllRealizedPlHistory(Engine)[i].trade_id_sell_ref = t.id}

RECURSIVE XSumRealizedPl(_)
\* realized_pl summed over the first n positions, as a real number
XSumRealizedPl(n) ==
    IF n = 0 THEN Zero
    ELSE XAdd(XSumRealizedPl(n - 1), positions[n].realized_pl)

RECURSIVE FSumRealizedPl(_)
\* the same sum in floats, in the order of the dict
FSumRealizedPl(n) ==
    IF n = 0 THEN Zero
    ELSE FAdd(FSumRealizedPl(n - 1), positions[n].realized_pl)

\* C15: get_total_realized_pl() is the sum of realized_pl over all the
\* positions of the engine, the closed ones too (the sum taken exactly or in
\* floats)
TotalRealized ==
    phase \in {"empty", "populated"} =>
        Exactly(GetTotalRealizedPl(positions),
                XSumRealizedPl(Len(positions)),
                FSumRealizedPl(Len(positions)))

\* C15 witness: a ticker was sold out at a profit and another is held
TotalRealizedWitness ==
    /\ phase = "populated"
    /\ \E i, j \in 1..Len(positions) :
          /\ IsClosed(positions[i])
          /\ positions[i].realized_pl # Zero
          /\ ~IsClosed(positions[j])
    /\ GetTotalRealizedPl(positions) # Zero

\* a letter without its case
Letter(c) ==
    CASE c \in {"a", "A"} -> "A"
      [] c \in {"m", "M"} -> "M"
      [] OTHER -> c

\* a ticker without the case of its letters
Fold(ticker) == [i \in DOMAIN ticker |-> Letter(ticker[i])]

\* the trades the replay has handled so far
Handled == {sorted_trades[n] : n \in 1..Min(idx - 1, Len(sorted_trades))}

\* C16: the positions are keyed by the uppercased ticker: there is one
\* Position for all the trades whose tickers differ in case only, its lots
\* and records are theirs, and get_position(q) is that Position whatever the
\* case of q, and None for a ticker no replayed trade has
TickerKeying ==
    /\ \A i, j \in 1..Len(positions) :
          i # j => positions[i].ticker # positions[j].ticker
    /\ \A i \in 1..Len(positions) :
          /\ positions[i].ticker = Fold(positions[i].ticker)
          /\ \A n \in 1..Len(positions[i].lots) :
                Fold(TradeOf(positions[i].lots[n].trade_id).ticker)
                   = positions[i].ticker
          /\ \A n \in 1..Len(positions[i].realized_history) :
                Fold(TradeOf(positions[i].realized_history[n]
                                 .trade_id_sell_ref).ticker)
                   = positions[i].ticker
    /\ \A t \in Handled : \E i \in 1..Len(positions) :
          /\ positions[i].ticker = Fold(t.ticker)
          /\ t.side = "BUY" =>
                \/ \E n \in 1..Len(positions[i].lots) :
                      positions[i].lots[n].trade_id = t.id
                \/ \E n \in 1..Len(positions[i].realized_history) :
                      \E m \in 1..Len(positions[i].realized_history[n]
                                          .matched_lots) :
                         positions[i].realized_history[n].matched_lots[m]
                            .buy_trade_id = t.id
    /\ \A q \in Queries :
          IF \E t \in Handled : Fold(t.ticker) = Fold(q)
          THEN \E i \in 1..Len(positions) :
                  /\ positions[i].ticker = Fold(q)
                  /\ GetPosition(positions, q) = <<positions[i]>>
          ELSE GetPosition(positions, q) = None

\* C16 witness: buys written "A" and "a" are the two lots of one Position,
\* which get_position finds under both, and no trade has the ticker M
TickerKeyingWitness ==
    /\ phase = "populated"
    /\ \E k, l \in 1..Len(trades) :
          /\ trades[k].ticker = <<"A">> /\ trades[l].ticker = <<"a">>
          /\ GetPosition(positions, <<"a">>) # None
          /\ \E m, n \in 1..Len(GetPosition(positions, <<"a">>)[1].lots) :
                /\ GetPosition(positions, <<"A">>)[1].lots[m].trade_id
                      = trades[k].id
                /\ GetPosition(positions, <<"a">>)[1].lots[n].trade_id
                      = trades[l].id
    /\ GetPosition(positions, <<"m">>) = None

\* the trade the ticker q (in capitals) first appears with, in ascending
\* (trade_date, id) order of the caller's list
FirstOf(q) ==
    CHOOSE k \in 1..Len(trades) :
        /\ Fold(trades[k].ticker) = q
        /\ \A l \in 1..Len(trades) :
              Fold(trades[l].ticker) = q /\ l # k =>
                 Precedes(trades[k].trade_date, trades[k].id,
                          trades[l].trade_date, trades[l].id)

\* the summaries are those of the positions that pass the test, one each, in
\* the order in which the tickers first appear in the replay
SummariesOf(list, Wanted(_)) ==
    /\ \A i \in 1..Len(positions) :
          Cardinality({n \in 1..Len(list) :
                          list[n].ticker = positions[i].ticker})
             = IF Wanted(positions[i]) THEN 1 ELSE 0
    /\ \A n \in 1..Len(list) : \E i \in 1..Len(positions) :
          /\ list[n] = ToDict(positions[i], None, None, Today)
          /\ list[n].ticker = positions[i].ticker
          /\ list[n].shares = positions[i].total_shares
          /\ list[n].is_closed = (positions[i].total_shares = Zero)
    /\ \A m, n \in 1..Len(list) :
          m < n => Precedes(trades[FirstOf(list[m].ticker)].trade_date,
                            trades[FirstOf(list[m].ticker)].id,
                            trades[FirstOf(list[n].ticker)].trade_date,
                            trades[FirstOf(list[n].ticker)].id)

\* C17: when process_trades has returned, get_all_positions(False) is the
\* summaries of the positions with total_shares # 0 and
\* get_all_positions(True) those of all positions (a ticker of every trade
\* has one), one per ticker, in the order in which the tickers first appear
\* in ascending (trade_date, id) order, however the list was handed over
AllPositions ==
    phase = "populated" =>
        /\ SummariesOf(GetAllPositions(positions, FALSE, Today),
                       LAMBDA pos : pos.total_shares # Zero)
        /\ SummariesOf(GetAllPositions(positions, TRUE, Today),
                       LAMBDA pos : TRUE)
        /\ \A k \in 1..Len(trades) :
              \E n \in 1..Len(GetAllPositions(positions, TRUE, Today)) :
                 GetAllPositions(positions, TRUE, Today)[n].ticker
                    = Fold(trades[k].ticker)

\* C17 witness: a list handed over newest first has been replayed; the ticker
\* that comes first in the replay is sold out, another is held
AllPositionsWitness ==
    /\ phase = "populated"
    /\ Len(trades) > 1 /\ trades[1].id > trades[2].id
    /\ Len(GetAllPositions(positions, TRUE, Today)) = 2
    /\ Len(GetAllPositions(positions, FALSE, Today)) = 1
    /\ GetAllPositions(positions, TRUE, Today)[1].is_closed
    /\ GetAllPositions(positions, TRUE, Today)[1].realized_pl_usd # Zero

\* ------------------------------------------------------------------------
\* Average cost and unrealized P&L
\* ------------------------------------------------------------------------
\* C18: get_avg_cost() and get_unrealized_pl(p) never raise; with
\* total_shares = 0 they return 0 and (0, 0), and with total_cost = 0 and
\* shares held get_unrealized_pl(p) returns a percent of 0
ZeroDivisionFloor ==
    /\ ~GetAvgCostRaises(position)
    /\ position.total_shares = Zero => GetAvgCost(position) = Zero
    /\ \A p \in CurrentPrices :
          /\ ~GetUnrealizedPlRaises(position, p)
          /\ position.total_shares = Zero =>
                GetUnrealizedPl(position, p) = <<Zero, Zero>>
          /\ position.total_shares # Zero /\ position.total_cost = Zero =>
                GetUnrealizedPl(position, p)[2] = Zero

\* C18 witness: lots were bought at price 0 and one has been sold, so that
\* shares are held at no cost
ZeroDivisionFloorWitness ==
    /\ position.total_shares # Zero
    /\ position.total_cost = Zero
    /\ position.realized_history # << >>
    /\ \A p \in CurrentPrices : GetUnrealizedPl(position, p)[2] = Zero

\* get_avg_cost() * total_shares is the sum of remaining_shares * price over
\* the queued lots, the product and the sum each taken exactly or in floats
AvgCostOfLots(pos) ==
    \E product \in {XMul(GetAvgCost(pos), pos.total_shares),
                    FMul(GetAvgCost(pos), pos.total_shares)} :
        product \in {XSumCost(pos.lots), FSumCost(pos.lots, Zero)}

\* get_unrealized_pl(p) returns pl = total_shares * p - total_cost and
\* pl_percent = pl / total_cost * 100, each taken exactly or in floats
UnrealizedOfTotals(pos, p) ==
    LET r == GetUnrealizedPl(pos, p) IN
    /\ Exactly(r[1], XSub(XMul(pos.total_shares, p), pos.total_cost),
               FSub(FMul(pos.total_shares, p), pos.total_cost))
    /\ pos.total_cost # Zero =>
          \/ XMul(r[2], pos.total_cost) = XMul(r[1], Hundred)
          \/ r[2] = FMul(FDiv(r[1], pos.total_cost), Hundred)

\* C19: whenever total_shares > 0, get_avg_cost() * total_shares is the sum
\* of remaining_shares * effective price over the queued lots, and
\* get_unrealized_pl(p) returns pl = total_shares * p - total_cost and
\* pl_percent = pl / total_cost * 100
HeldLotsOnly ==
    FGt(position.total_shares, Zero) =>
        /\ AvgCostOfLots(position)
        /\ \A p \in CurrentPrices : UnrealizedOfTotals(position, p)

\* ------------------------------------------------------------------------
\* first_buy_date
\* ------------------------------------------------------------------------
\* C20: first_buy_date is set by the first add_buy on the Position, to that
\* buy's date, and no later call changes it: no add_buy, no process_sell
\* that returns or raises, no sale of everything, no buy after it
FirstBuyStep ==
    /\ position.first_buy_date # None =>
          position'.first_buy_date = position.first_buy_date
    /\ position.first_buy_date = None =>
          position'.first_buy_date
             = IF last'.op = "add_buy" THEN <<last'.trade_date>> ELSE None

FirstBuySticky == [][FirstBuyStep]_vars

\* C20 witness: after a buy and the sale of all of it, a buy of a later day
\* is the only lot, and first_buy_date is the day of the first buy
FirstBuyWitness ==
    /\ last.op = "add_buy"
    /\ position.realized_history # << >>
    /\ Len(position.lots) = 1
    /\ position.lots[1].trade_id = last.trade_id
    /\ position.first_buy_date # None
    /\ position.first_buy_date # <<last.trade_date>>

\* ------------------------------------------------------------------------
\* The end-to-end scenario
\* ------------------------------------------------------------------------
\* C21: process_trades on the list of test_position_engine (AAPL BUY 10@100,
\* BUY 5@120, SELL 8@130 fee 1.60, MSFT BUY 3@300, SELL 3@350), in whatever
\* order it is handed over, skips no SELL and leaves AAPL with total_shares 7
\* and realized_pl 238.40, MSFT closed with realized_pl 150.00, and
\* get_total_realized_pl() = 388.40
Scenario ==
    /\ InLoop /\ CurTrade.side = "SELL" => ~CurRaises
    /\ phase = "populated" =>
          LET aapl == GetPosition(positions, AAPL)
              msft == GetPosition(positions, MSFT)
          IN  /\ aapl # None
              /\ aapl[1].total_shares = Flt(7)
              /\ aapl[1].realized_pl = Decimal(2384, 10)
              /\ msft # None
              /\ IsClosed(msft[1])
              /\ msft[1].realized_pl = Decimal(1500, 10)
              /\ GetTotalRealizedPl(positions) = Decimal(3884, 10)

\* C21 witness: the list, handed over out of order, has been replayed and
\* both SELLs have their records
ScenarioWitness ==
    /\ phase = "populated"
    /\ trades # sorted_trades
    /\ sorted_trades = ScenarioTrades
    /\ Len(all_realized_pl) = 2
    /\ Len(positions) = 2

\* ------------------------------------------------------------------------
\* Output
\* ------------------------------------------------------------------------
\* C22: process_trades writes nothing to the console, not even when it skips
\* a SELL: at every point of a call, no message has been printed
NoOutput == stdout = << >>

\* ------------------------------------------------------------------------
\* Termination of the matching loop
\* ------------------------------------------------------------------------
\* C23: the matching loop of an accepted process_sell makes at most as many
\* iterations as there are queued lots, each of which pops the front lot or
\* sets the quantity still owed to 0 (one fragment per iteration, all but
\* the last of a popped lot), and leaves the loop with exactly 0 still owed
LoopStep ==
    SoldStep =>
        LET loop == last'.loop
            popped == Len(position.lots) - Len(position'.lots)
        IN  /\ loop.iterations <= Len(position.lots)
            /\ loop.iterations = Len(loop.matched_lots)
            /\ popped \in {loop.iterations, loop.iterations - 1}
            /\ loop.remaining_to_sell = Zero

LoopTermination == [][LoopStep]_vars

\* ------------------------------------------------------------------------
\* Independence of the tickers
\* ------------------------------------------------------------------------
\* the trades of a list whose uppercased ticker is T, in the list's order
OfTicker(list, T) == SelectSeq(list, LAMBDA t : Upper(t.ticker) = T)

\* the uppercased tickers
Keys == {Upper(ticker) : ticker \in Tickers}

\* C24: when process_trades(L) has returned, the Position of every ticker T
\* (lots, total_shares, total_cost, realized_pl, realized_history,
\* first_buy_date) is the one process_trades leaves when given only the
\* trades of L whose uppercased ticker is T, and there is none in the one
\* case exactly when there is none in the other
Independence ==
    phase = "populated" =>
        \A T \in Keys :
            GetPosition(positions, T)
              = GetPosition(RunTrades(OfTicker(trades, T)).positions, T)

\* C24 witness: a list with a skipped SELL of one ticker and, after it in
\* the replay, a BUY and an applied SELL of another has been replayed
IndependenceWitness ==
    /\ phase = "populated"
    /\ Len(sorted_trades) = 3
    /\ Skipped(sorted_trades[1])
    /\ Upper(sorted_trades[1].ticker) # Upper(sorted_trades[2].ticker)
    /\ sorted_trades[2].side = "BUY"
    /\ SellApplied(sorted_trades[3])
    /\ GetPosition(positions, sorted_trades[1].ticker) # None

\* ------------------------------------------------------------------------
\* Partially consumed lots
\* ------------------------------------------------------------------------
\* the places of the queue whose lot has lost part of its quantity
Partial(lots) ==
    {i \in 1..Len(lots) : lots[i].remaining_shares # lots[i].shares}

\* C25: in every state of a Position every queued lot but the first has
\* remaining_shares = shares; so a sell leaves at most one lot partially
\* consumed, and that lot is at the front of the queue
FrontOnly ==
    /\ \A i \in 2..Len(position.lots) :
          position.lots[i].remaining_shares = position.lots[i].shares
    /\ Cardinality(Partial(position.lots)) <= 1
    /\ Partial(position.lots) \subseteq {1}

\* C25 witness: an accepted sell has left the front lot partially consumed
\* and a whole lot behind it
FrontOnlyWitness ==
    /\ last.op = "process_sell" /\ ~last.raised
    /\ Len(position.lots) = 2
    /\ Partial(position.lots) = {1}
    /\ position.lots[1].trade_id
         = last.ret.matched_lots[Len(last.ret.matched_lots)].buy_trade_id

\* ------------------------------------------------------------------------
\* Matched-lot fragments
\* ------------------------------------------------------------------------
RECURSIVE XSumOf(_, _)
\* the sum of one field over a list of records, as a real number
XSumOf(m, field) ==
    IF m = << >> THEN Zero ELSE XAdd(Head(m)[field], XSumOf(Tail(m), field))

RECURSIVE FSumOf(_, _, _)
\* the same sum in float arithmetic, first record first
FSumOf(m, field, acc) ==
    IF m = << >> THEN acc
    ELSE FSumOf(Tail(m), field, FAdd(acc, Head(m)[field]))

\* C26: the fragments of an accepted sell have shares that sum to the shares
\* sold (exactly or in floats) and are each > 0; they are of the lots at the
\* front of the queue, one each, in the queue's order; every fragment but
\* the last takes all that was left of its lot; and total_cost_basis is the
\* sum of their cost_basis (exactly or in floats)
FragmentsStep ==
    SoldStep =>
        LET r == last'.ret
            m == r.matched_lots
            old == position.lots
        IN  /\ Exactly(r.shares, XSumOf(m, "shares"), FSumOf(m, "shares", Zero))
            /\ \A j \in 1..Len(m) : FGt(m[j].shares, Zero)
            /\ Len(m) <= Len(old)
            /\ \A j \in 1..Len(m) : m[j].buy_trade_id = old[j].trade_id
            /\ \A i, j \in 1..Len(m) :
                  i # j => m[i].buy_trade_id # m[j].buy_trade_id
            /\ \A j \in 1..(Len(m) - 1) :
                  m[j].shares = old[j].remaining_shares
            /\ Exactly(r.total_cost_basis, XSumOf(m, "cost_basis"),
                       FSumOf(m, "cost_basis", Zero))

Fragments == [][FragmentsStep]_vars

\* ------------------------------------------------------------------------
\* Bookkeeping of the realized P&L
\* ------------------------------------------------------------------------
\* the records of the engine's list that are of one ticker, in its order
RecordsFor(ticker) ==
    SelectSeq(GetAllRealizedPlHistory(Engine), LAMBDA r : r.ticker = ticker)

\* C27: at every point of the replay each Position's realized_pl is the sum
\* of pl_usd over its realized_history, the engine's list restricted to a
\* ticker is that Position's realized_history, and get_total_realized_pl()
\* is the sum of pl_usd over get_all_realized_pl_history() (the sums taken
\* exactly or in floats, in the order of the lists)
Bookkeeping ==
    /\ \A i \in 1..Len(positions) :
          /\ Exactly(positions[i].realized_pl,
                     XSumOf(positions[i].realized_history, "pl_usd"),
                     FSumOf(positions[i].realized_history, "pl_usd", Zero))
          /\ RecordsFor(positions[i].ticker) = positions[i].realized_history
    /\ Exactly(GetTotalRealizedPl(positions),
               XSumOf(GetAllRealizedPlHistory(Engine), "pl_usd"),
               FSumOf(GetAllRealizedPlHistory(Engine), "pl_usd", Zero))

\* ------------------------------------------------------------------------
\* The Position of a skipped SELL
\* ------------------------------------------------------------------------
\* the places of the replay order with a SELL that is the first trade of its
\* ticker
FirstSells ==
    {n \in 1..Len(sorted_trades) :
        /\ sorted_trades[n].side = "SELL"
        /\ \A m \in 1..(n - 1) :
              Upper(sorted_trades[m].ticker) # Upper(sorted_trades[n].ticker)}

\* a list without the trade of the given id
Without(list, id) == SelectSeq(list, LAMBDA t : t.id # id)

\* p is a Position nothing was bought or sold in
EmptyPosition(p) ==
    /\ p # None
    /\ p[1].total_shares = Zero
    /\ p[1].lots = << >>
    /\ p[1].realized_pl = Zero
    /\ p[1].first_buy_date = None

\* get_all_positions(include_closed=True) has an entry for the ticker
Listed(ticker) ==
    \E n \in 1..Len(GetAllPositions(positions, TRUE, Today)) :
        GetAllPositions(positions, TRUE, Today)[n].ticker = Upper(ticker)

\* the replay has handled a BUY of the ticker
BoughtSoFar(ticker) ==
    \E t \in Handled : t.side = "BUY" /\ Upper(t.ticker) = Upper(ticker)

\* t is the only trade of its ticker in the list
OnlyTradeOf(t) ==
    \A k \in 1..Len(trades) :
        Upper(trades[k].ticker) = Upper(t.ticker) => trades[k].id = t.id

\* C28, as stated: when process_trades has returned, for every SELL that is
\* the first trade of its ticker in replay order, the SELL was skipped,
\* get_position gives an empty Position for the ticker,
\* get_all_positions(True) lists it, and the positions differ from those of
\* the replay of the list without that SELL
SkippedSellPosition ==
    phase = "populated" =>
        \A n \in FirstSells :
            LET t == sorted_trades[n] IN
            /\ Skipped(t)
            /\ EmptyPosition(GetPosition(positions, t.ticker))
            /\ Listed(t.ticker)
            /\ RunTrades(Without(trades, t.id)).positions # positions

\* C28, amended: a SELL that is the first trade of its ticker in replay
\* order is skipped and creates the ticker's Position: from then on
\* get_position gives a Position and get_all_positions(True) lists it; the
\* Position is empty until a BUY of the ticker is replayed; and when the
\* SELL is the ticker's only trade, the replay of the list without it leaves
\* no Position for the ticker, so that the positions differ
SkippedSellCreates ==
    \A n \in FirstSells :
        n < idx =>
            LET t == sorted_trades[n] IN
            /\ Skipped(t)
            /\ GetPosition(positions, t.ticker) # None
            /\ Listed(t.ticker)
            /\ ~BoughtSoFar(t.ticker) =>
                  EmptyPosition(GetPosition(positions, t.ticker))
            /\ phase = "populated" /\ OnlyTradeOf(t) =>
                  \E without \in {RunTrades(Without(trades, t.id)).positions} :
                     /\ GetPosition(without, t.ticker) = None
                     /\ without # positions

\* C28 witness: process_trades has returned; the only trade of a ticker was
\* a SELL, replayed after a BUY of another ticker that is still held
SkippedSellWitness ==
    /\ phase = "populated"
    /\ \E n \in FirstSells :
          /\ n > 1
          /\ OnlyTradeOf(sorted_trades[n])
          /\ EmptyPosition(GetPosition(positions, sorted_trades[n].ticker))
    /\ \E i \in 1..Len(positions) : ~IsClosed(positions[i])

\* ------------------------------------------------------------------------
\* Trades of one day
\* ------------------------------------------------------------------------
\* the positions when the replay is about to handle the trade at place n
Before(n) == RunFrom(SubSeq(sorted_trades, 1, n - 1), NewEngine).positions

\* the record of the SELL s has a fragment of the lot of the BUY b
MatchedWith(s, b) ==
    \E i \in 1..Len(all_realized_pl) :
        /\ all_realized_pl[i].trade_id_sell_ref = s.id
        /\ \E j \in 1..Len(all_realized_pl[i].matched_lots) :
              all_realized_pl[i].matched_lots[j].buy_trade_id = b.id

BuyDates(ticker) ==
    {trades[k].trade_date : k \in {n \in 1..Len(trades) :
        trades[n].side = "BUY" /\ Upper(trades[n].ticker) = ticker}}

\* C30: when process_trades has returned, however the list was handed over,
\* the first_buy_date of each Position is the earliest trade_date of the
\* BUYs of its ticker in the list, and is None exactly when the list has no
\* BUY of the ticker
FirstBuyDate ==
    phase = "populated" =>
        \A i \in 1..Len(positions) :
            \E dates \in {BuyDates(positions[i].ticker)} :
                /\ (positions[i].first_buy_date = None) = (dates = {})
                /\ dates # {} =>
                      /\ positions[i].first_buy_date[1] \in dates
                      /\ \A day \in dates :
                            positions[i].first_buy_date[1] <= day

\* C30 witness: a replay has returned in which the BUY of a ticker with the
\* smaller id has the later date, and another ticker has no BUY
FirstBuyDateWitness ==
    /\ phase = "populated"
    /\ \E k, l \in 1..Len(trades) :
          /\ trades[k].side = "BUY" /\ trades[l].side = "BUY"
          /\ Upper(trades[k].ticker) = Upper(trades[l].ticker)
          /\ trades[k].id < trades[l].id
          /\ trades[k].trade_date > trades[l].trade_date
          /\ GetPosition(positions, trades[k].ticker)[1].first_buy_date
               = <<trades[l].trade_date>>
    /\ \E i \in 1..Len(positions) : positions[i].first_buy_date = None

\* ------------------------------------------------------------------------
\* Closed positions
\* ------------------------------------------------------------------------
\* C31: in every state of a Position (all trades have shares > 0),
\* is_closed() is true exactly when the lot queue is empty, and then, and
\* only then, total_shares = 0 and total_cost = 0
ClosedIffNoLots ==
    /\ IsClosed(position) <=> position.lots = << >>
    /\ IsClosed(position) <=>
          position.total_shares = Zero /\ position.total_cost = Zero

\* ------------------------------------------------------------------------
\* The sell simulation against the engine
\* ------------------------------------------------------------------------
\* what process_sell(shares_to_sell, current_price, fee 0) does to the
\* position the last simulation was asked about
SimulatedSell ==
    ProcessSell(position, last.shares, last.price_usd, 1, calls + 1, Zero)

\* the last call was a simulation that answered 200
Simulated == last.op = "simulate_sell" /\ ~last.raised

\* the simulation's fragments and gross P&L are those of the sell
SimulationFragments ==
    Simulated =>
        \E r \in {SimulatedSell} :
            /\ ~r.raised
            /\ last.ret.matched_lots = r.ret.matched_lots
            /\ last.ret.gross_pl_usd = r.ret.pl_usd

\* C32: for an open position and 0 < shares_to_sell <= total_shares,
\* simulate_sell gives the matched-lot fragments (buy trade id, shares, cost
\* basis, proceeds, pl) and the gross P&L of process_sell(shares_to_sell,
\* current_price, fee 0) on that position, and its remaining shares and
\* remaining average cost are total_shares and get_avg_cost() after that sell
SimulationAgrees ==
    /\ SimulationFragments
    /\ Simulated =>
          \E r \in {SimulatedSell} :
              /\ last.ret.remaining_shares = r.pos.total_shares
              /\ last.ret.new_avg_cost = GetAvgCost(r.pos)

\* ------------------------------------------------------------------------
\* The caller's list
\* ------------------------------------------------------------------------
\* the step belongs to a call of process_trades: its entry, an iteration of
\* its loop, or its return
InProcessTrades == phase' # "empty"

\* C33: process_trades does not modify its input: over every step of a call
\* the caller's list keeps its length and its order and every trade all its
\* field values (the replay sorts a copy), also when SELLs are skipped
InputStep == InProcessTrades => trades' = trades

InputUnmodified == [][InputStep]_vars

\* C33 witness: process_trades has returned; the list was not in replay
\* order, and a SELL of it was skipped
InputWitness ==
    /\ phase = "populated"
    /\ trades # sorted_trades
    /\ stdout # << >>

====
